---- MODULE Spec2Model ----
(***************************************************************************)
(* clyent: ApiService descriptors and the createApiClient factory, with   *)
(* the part of axios the factory drives (create, interceptors.use, the     *)
(* interceptor chain of a request).                                        *)
(*                                                                         *)
(* JavaScript values are tagged records, so that a field may hold a        *)
(* string, an object, a function or undefined:                             *)
(*   Undef, Str(s), Obj(props), Fn(id), Closure(name, h), Inst(h)          *)
(* An object's properties are a function from property keys to values; a   *)
(* key outside its DOMAIN is a property the object does not have.          *)
(***************************************************************************)
EXTENDS Integers, Sequences, FiniteSets, TLC

VARIABLES
    app,          \* the program's rootUrl and the global part of init
    descs,        \* config id -> completion of new ApiService(config)
    buildCount,   \* config id -> number of times its endpoint factory ran
    instances,    \* handle id -> axios instance (defaults, interceptor managers)
    calls,        \* the createApiClient calls made so far, in order
    lastRequest   \* the hooks the latest request ran, in order

vars == <<app, descs, buildCount, instances, calls, lastRequest>>

\* Number of createApiClient calls the program makes.
MaxCalls == 2

----------------------------------------------------------------------------
\* JavaScript values

Undef == [type |-> "undefined"]
Str(s) == [type |-> "string", str |-> s]
Obj(props) == [type |-> "object", props |-> props]
Fn(id) == [type |-> "function", id |-> id]
Closure(name, h) == [type |-> "function", id |-> name, instance |-> h]
Inst(h) == [type |-> "instance", id |-> h]

NoProps == [k \in {} |-> Undef]

\* o.k on an object's properties: undefined when the property is missing
Get(props, k) == IF k \in DOMAIN props THEN props[k] ELSE Undef

\* a ?? b
Coalesce(a, b) == IF a.type = "undefined" THEN b ELSE a

\* v?.k
OptGet(v, k) == IF v.type = "object" THEN Get(v.props, k) ELSE Undef

\* if (v)
Truthy(v) ==
    CASE v.type = "undefined" -> FALSE
      [] v.type = "string" -> v.str # ""
      [] OTHER -> TRUE

\* `${v}` for the values that reach the template
TemplateString(v) ==
    CASE v.type = "string" -> v.str
      [] v.type = "undefined" -> "undefined"
      [] OTHER -> "[object Object]"

\* obj[v] = ...: the property key a value converts to
PropertyKey(v) == TemplateString(v)

\* { ...target, ...source }: own properties of source laid over target;
\* spreading undefined adds nothing
Spread(target, source) ==
    IF source.type = "object"
    THEN [k \in DOMAIN target \cup DOMAIN source.props |->
            IF k \in DOMAIN source.props THEN source.props[k] ELSE target[k]]
    ELSE target

Completion(kind, value) == [kind |-> kind, value |-> value]
Normal(value) == Completion("normal", value)
Throw(value) == Completion("throw", value)

----------------------------------------------------------------------------
\* The program's inputs

\* An endpoint factory: a function that, given the instance, returns one
\* closure per key, or throws
Factory(id, keys) ==
    [type |-> "function", id |-> id, keys |-> keys, throws |-> Undef]
ThrowingFactory(id, e) ==
    [type |-> "function", id |-> id, keys |-> {}, throws |-> e]

\* The configuration records the program passes to new ApiService(...). A
\* name is undefined or a string naming an ordinary data property.
ServiceConfigs == <<
    [ name |-> Str("users"),
      baseUrl |-> Str("/users"),
      endpoints |-> Factory("usersEndpoints", {"getUsers", "getUser"}) ],
    [ name |-> Str("posts"),
      config |-> Obj([ baseURL |-> Str("https://posts.example.com"),
                       headers |-> Obj([Authorization |-> Str("token")]) ]),
      interceptors |-> Obj([
          request |-> Obj([ onFulfilled |-> Fn("posts.request.onFulfilled"),
                            onRejected |-> Fn("posts.request.onRejected") ]),
          response |-> Obj([ onFulfilled |-> Fn("posts.response.onFulfilled") ]) ]),
      endpoints |-> Factory("postsEndpoints",
          {"getPost", "baseUrl", "config", "interceptors", "instance"}) ],
    [ baseUrl |-> Str("/ping"),
      config |-> Obj([ headers |-> Obj([Accept |-> Str("text/plain")]) ]),
      interceptors |-> Obj([
          request |-> Obj([ onRejected |-> Fn("ping.request.onRejected") ]) ]),
      endpoints |-> Factory("pingEndpoints", {"ping"}) ],
    [ name |-> Str(""),
      baseUrl |-> Str("/broken"),
      endpoints |-> ThrowingFactory("brokenEndpoints", Str("boom")) ]
>>

ConfigIds == 1 .. Len(ServiceConfigs)

\* The rootUrl and the global part of init the program calls createApiClient with
Apps == {
    [ rootUrl |-> Str("https://api.example.com"),
      init |-> NoProps ],
    [ rootUrl |-> Str("https://api.example.com"),
      init |-> [ config |-> Obj([ headers |-> Obj([ContentType |-> Str("application/json")]) ]),
                 interceptors |-> Obj([
                     request |-> Obj([ onFulfilled |-> Fn("global.request.onFulfilled") ]),
                     response |-> Obj([ onFulfilled |-> Fn("global.response.onFulfilled"),
                                        onRejected |-> Fn("global.response.onRejected") ]) ]) ] ],
    [ rootUrl |-> Str("https://api.example.com/"),
      init |-> [ config |-> Obj([ baseURL |-> Str("https://global.example.com") ]),
                 interceptors |-> Obj([
                     request |-> Obj([ onRejected |-> Fn("global.request.onRejected") ]) ]) ] ]
}

\* The keys of init.services, by position in the object literal. They are
\* ordinary names, not integer-like ones, which for...in would enumerate first
\* and in ascending order.
ServiceKeys == <<"users", "posts", "extra">>

\* The services the program passes, as the config ids of the ApiService
\* instances in insertion order
ServiceMaps == {
    <<1>>, <<1, 2>>, <<2, 1>>, <<3, 2>>, <<2, 2>>, <<1, 4, 2>>, <<4, 1>>
}

----------------------------------------------------------------------------
\* class ApiService

\* A constructor that rejects a missing or empty name
ApiServiceValidating(cfg) ==
    IF ~Truthy(Get(cfg, "name"))
    THEN Throw([type |-> "error", name |-> "InvalidConfigError"])
    ELSE Normal([ name |-> Get(cfg, "name"),
                  baseUrl |-> Coalesce(Get(cfg, "baseUrl"), Str("")),
                  config |-> Coalesce(Get(cfg, "config"), Obj(NoProps)),
                  interceptors |-> Get(cfg, "interceptors"),
                  build |-> Get(cfg, "endpoints") ])

ApiService(cfg) ==
    Normal([ name |-> Get(cfg, "name"),
             baseUrl |-> Coalesce(Get(cfg, "baseUrl"), Str("")),
             config |-> Coalesce(Get(cfg, "config"), Obj(NoProps)),
             interceptors |-> Get(cfg, "interceptors"),
             build |-> Get(cfg, "endpoints") ])

----------------------------------------------------------------------------
\* axios, as createApiClient drives it

\* A create that hands out again an instance made with an equal config
AxiosCreateCached(insts, config) ==
    IF \E h \in DOMAIN insts : insts[h].defaults = config
    THEN [ id |-> CHOOSE h \in DOMAIN insts : insts[h].defaults = config,
           insts |-> insts ]
    ELSE LET h == Cardinality(DOMAIN insts) + 1
         IN [ id |-> h,
              insts |-> insts @@ (h :> [ defaults |-> config,
                                         request |-> <<>>,
                                         response |-> <<>> ]) ]

\* axios.create(config): a new instance with its own, empty interceptor managers
AxiosCreate(insts, config) ==
    LET h == Cardinality(DOMAIN insts) + 1
    IN [ id |-> h,
         insts |-> insts @@ (h :> [ defaults |-> config,
                                    request |-> <<>>,
                                    response |-> <<>> ]) ]

\* instance.interceptors[kind].use(fulfilled, rejected): appends a handler;
\* either hook may be undefined
Use(insts, h, kind, fulfilled, rejected) ==
    [insts EXCEPT ![h][kind] =
        Append(@, [fulfilled |-> fulfilled, rejected |-> rejected])]

\* What the chain of one request through instance h runs, in order: axios
\* unshifts every request handler in front of the dispatch and pushes every
\* response handler behind it, then threads a promise through the pairs.
\* A hook that is undefined lets the promise pass; a fulfilled hook is taken
\* to return its argument, a rejected hook to reject again.
RequestChain(inst) ==
    [i \in 1 .. Len(inst.request) |-> inst.request[Len(inst.request) + 1 - i]]

ResponseChain(inst) == inst.response

RECURSIVE RunChain(_, _, _)
RunChain(chain, i, settled) ==
    IF i > Len(chain) THEN <<>>
    ELSE LET hook == IF settled = "fulfilled" THEN chain[i].fulfilled
                     ELSE chain[i].rejected
         IN (IF hook.type = "function" THEN <<hook.id>> ELSE <<>>)
            \o RunChain(chain, i + 1, settled)

AxiosRequest(inst, outcome) ==
    RunChain(RequestChain(inst), 1, "fulfilled")
    \o <<"dispatchRequest">>
    \o RunChain(ResponseChain(inst), 1, outcome)

----------------------------------------------------------------------------
\* createApiClient

\* The factory call itself: the closures over the instance, or the throw
Call(fn, instance) ==
    IF fn.throws.type # "undefined"
    THEN Throw(fn.throws)
    ELSE Normal(Obj([k \in fn.keys |-> Closure(k, instance.id)]))

\* A merge in which the global configuration is laid over the service's
MergeConfigGlobalLast(rootUrl, globalConfig, service) ==
    Spread(
        Spread([baseURL |-> Str(TemplateString(rootUrl) \o TemplateString(service.baseUrl))],
               service.config),
        globalConfig)

\* { baseURL: `${rootUrl}${service.baseUrl}`, ...globalConfig, ...service.config }
MergeConfig(rootUrl, globalConfig, service) ==
    Spread(
        Spread([baseURL |-> Str(TemplateString(rootUrl) \o TemplateString(service.baseUrl))],
               globalConfig),
        service.config)

\* if (ixs?.[kind]) instance.interceptors[kind].use(onFulfilled!, onRejected)
ApplySlot(m, h, kind, ixs) ==
    LET slot == OptGet(ixs, kind)
    IN IF Truthy(slot)
       THEN [m EXCEPT
               !.insts = Use(@, h, kind, OptGet(slot, "onFulfilled"),
                             OptGet(slot, "onRejected")),
               !.events = Append(@, [op |-> "use", instance |-> h, kind |-> kind])]
       ELSE m

\* A registration that puts the service's interceptors before the global ones
ApplyInterceptorsServiceFirst(m, h, globalIxs, service) ==
    ApplySlot(
        ApplySlot(
            ApplySlot(
                ApplySlot(m, h, "request", service.interceptors),
                h, "response", service.interceptors),
            h, "request", globalIxs),
        h, "response", globalIxs)

\* global request, global response, then service request, service response
ApplyInterceptors(m, h, globalIxs, service) ==
    ApplySlot(
        ApplySlot(
            ApplySlot(
                ApplySlot(m, h, "request", globalIxs),
                h, "response", globalIxs),
            h, "request", service.interceptors),
        h, "response", service.interceptors)

\* The error kind a wrapping of a factory's throw would raise
EndpointFactoryError(e) ==
    [type |-> "error", name |-> "EndpointFactoryError", cause |-> e]

\* A factory call that wraps what the factory throws
InvokeBuildWrapping(service, instance) ==
    LET r == Call(service.build, instance)
    IN IF r.kind = "throw" THEN Throw(EndpointFactoryError(r.value)) ELSE r

\* const endpoints = service.build(instance)
InvokeBuild(service, instance) == Call(service.build, instance)

\* A composition in which the endpoints are spread over the metadata
ComposeClientEndpointsLast(endpoints, service, axiosConfig, instance) ==
    Obj(Spread(
        [ baseUrl |-> service.baseUrl,
          config |-> Obj(axiosConfig),
          interceptors |-> service.interceptors,
          instance |-> instance ],
        endpoints))

\* { ...endpoints, baseUrl, config, interceptors, instance }
ComposeClient(endpoints, service, axiosConfig, instance) ==
    Obj(Spread(
        Spread(NoProps, endpoints),
        Obj([ baseUrl |-> service.baseUrl,
              config |-> Obj(axiosConfig),
              interceptors |-> service.interceptors,
              instance |-> instance ])))

\* An assignment under the key of init.services instead of the name
AssignUnderKey(client, entry, svcClient) ==
    [k \in DOMAIN client \cup {entry.key} |->
        IF k = entry.key THEN svcClient ELSE client[k]]

\* client[service.name] = svcClient
Assign(client, entry, svcClient) ==
    LET name == PropertyKey(entry.service.name)
    IN [k \in DOMAIN client \cup {name} |->
          IF k = name THEN svcClient ELSE client[k]]

\* The body of the for...in loop for one entry of services
LoopBody(st, entry, rootUrl, globalConfig, globalIxs) ==
    LET service == entry.service
        axiosConfig == MergeConfig(rootUrl, globalConfig, service)
        created == AxiosCreate(st.m.insts, Obj(axiosConfig))
        h == created.id
        m1 == [st.m EXCEPT
                 !.insts = created.insts,
                 !.events = Append(@, [op |-> "create", instance |-> h])]
        m2 == ApplyInterceptors(m1, h, globalIxs, service)
        endpoints == InvokeBuild(service, Inst(h))
        m3 == [m2 EXCEPT
                 !.counts[entry.id] = @ + 1,
                 !.events = Append(@, [op |-> "build", instance |-> h,
                                       id |-> entry.id, key |-> entry.key])]
    IN IF endpoints.kind = "throw"
       THEN [st EXCEPT !.m = m3, !.completion = endpoints]
       ELSE [st EXCEPT
               !.m = m3,
               !.client = Assign(@, entry,
                   ComposeClient(endpoints.value, service, axiosConfig, Inst(h)))]

\* An enumeration of the keys from the last inserted to the first
ForInReversed(services) ==
    [p \in 1 .. Len(services) |-> services[Len(services) + 1 - p]]

\* for (const key in services) { ... }: own keys in insertion order; a throw
\* leaves the loop and the function
ForInOrder(services) == services

\* A loop that goes on to the next entry after a throw
RECURSIVE ForInContinuing(_, _, _, _, _, _)
ForInContinuing(st, services, i, rootUrl, globalConfig, globalIxs) ==
    IF i > Len(services)
    THEN st
    ELSE ForInContinuing(LoopBody(st, services[i], rootUrl, globalConfig, globalIxs),
                         services, i + 1, rootUrl, globalConfig, globalIxs)

RECURSIVE ForIn(_, _, _, _, _, _)
ForIn(st, services, i, rootUrl, globalConfig, globalIxs) ==
    IF i > Len(services) \/ st.completion.kind = "throw"
    THEN st
    ELSE ForIn(LoopBody(st, services[i], rootUrl, globalConfig, globalIxs),
               services, i + 1, rootUrl, globalConfig, globalIxs)

\* createApiClient(rootUrl, init), run on the machine state m (the instances,
\* the factory counters, the events of this call)
CreateApiClient(rootUrl, init, m) ==
    LET globalConfig == Coalesce(Get(init, "config"), Obj(NoProps))
        globalIxs == Get(init, "interceptors")
        services == ForInOrder(init.services)
        st == ForIn([client |-> NoProps, m |-> m, completion |-> Normal(Undef)],
                    services, 1, rootUrl, globalConfig, globalIxs)
    IN IF st.completion.kind = "throw"
       THEN [completion |-> st.completion, m |-> st.m]
       ELSE [completion |-> Normal(Obj(st.client)), m |-> st.m]

----------------------------------------------------------------------------
\* The program

Constructed == {i \in DOMAIN descs : descs[i].kind = "normal"}

\* The object literals the program can pass as init.services: n entries, in
\* insertion order, each an ApiService the program has constructed
ServicesOf(ids) ==
    [p \in 1 .. Len(ids) |->
        [key |-> ServiceKeys[p], id |-> ids[p], service |-> descs[ids[p]].value]]

Init ==
    /\ app \in Apps
    /\ descs = <<>>
    /\ buildCount = [i \in ConfigIds |-> 0]
    /\ instances = <<>>
    /\ calls = <<>>
    /\ lastRequest = <<>>

\* new ApiService(ServiceConfigs[i])
Construct(i) ==
    /\ i \notin DOMAIN descs
    /\ descs' = descs @@ (i :> ApiService(ServiceConfigs[i]))
    /\ UNCHANGED <<app, buildCount, instances, calls, lastRequest>>

\* createApiClient(app.rootUrl, { ...app.init, services })
Assemble(ids) ==
    LET services == ServicesOf(ids)
        init == [k \in DOMAIN app.init \cup {"services"} |->
                    IF k = "services" THEN services ELSE app.init[k]]
        r == CreateApiClient(app.rootUrl, init,
                 [insts |-> instances, counts |-> buildCount, events |-> <<>>])
    IN /\ Len(calls) < MaxCalls
       /\ \A p \in 1 .. Len(ids) : ids[p] \in Constructed
       /\ instances' = r.m.insts
       /\ buildCount' = r.m.counts
       /\ calls' = Append(calls, [ services |-> services,
                                   completion |-> r.completion,
                                   events |-> r.m.events ])
       /\ UNCHANGED <<app, descs, lastRequest>>

\* a request through instance h whose transport settles as outcome
Request(h, outcome) ==
    /\ lastRequest' = <<[instance |-> h, outcome |-> outcome,
                         ran |-> AxiosRequest(instances[h], outcome)]>>
    /\ UNCHANGED <<app, descs, buildCount, instances, calls>>

Next ==
    \/ \E i \in ConfigIds : Construct(i)
    \/ \E ids \in ServiceMaps : Assemble(ids)
    \/ \E h \in DOMAIN instances, outcome \in {"fulfilled", "rejected"} :
         Request(h, outcome)

Spec == Init /\ [][Next]_vars

----------------------------------------------------------------------------
\* Reading the state

IsCreate(e) == e.op = "create"
IsBuild(e) == e.op = "build"

Returned == {c \in 1 .. Len(calls) : calls[c].completion.kind = "normal"}
Threw == {c \in 1 .. Len(calls) : calls[c].completion.kind = "throw"}

\* The entries of call c that the loop reached, and the instance made for each
CreateEvents(c) == SelectSeq(calls[c].events, IsCreate)
BuildEvents(c) == SelectSeq(calls[c].events, IsBuild)
Reached(c) == 1 .. Len(CreateEvents(c))
HandleOf(c, p) == CreateEvents(c)[p].instance

\* The configuration record entry p of call c was constructed from
CfgOf(c, p) == ServiceConfigs[calls[c].services[p].id]
NameOf(c, p) == Get(CfgOf(c, p), "name")
SegmentOf(c, p) ==
    IF "baseUrl" \in DOMAIN CfgOf(c, p) THEN CfgOf(c, p).baseUrl.str ELSE ""
Throws(c, p) == CfgOf(c, p).endpoints.throws.type # "undefined"
ThrowingEntries(c) == {p \in 1 .. Len(calls[c].services) : Throws(c, p)}
FirstThrow(c) ==
    CHOOSE k \in ThrowingEntries(c) : \A q \in ThrowingEntries(c) : k <= q

\* The client object call c returned, and the last entry stored under key n
ClientOf(c) == calls[c].completion.value.props
LastUnder(c, n) ==
    CHOOSE p \in 1 .. Len(calls[c].services) :
        /\ PropertyKey(NameOf(c, p)) = n
        /\ \A q \in (p + 1) .. Len(calls[c].services) : PropertyKey(NameOf(c, q)) # n

MetadataKeys == {"baseUrl", "config", "interceptors", "instance"}

\* What the merge of entry p's configuration is to be, from the inputs
GlobalConfigProps ==
    IF "config" \in DOMAIN app.init THEN app.init.config.props ELSE NoProps
ServiceConfigProps(c, p) ==
    IF "config" \in DOMAIN CfgOf(c, p) THEN CfgOf(c, p).config.props ELSE NoProps
ExpectedConfig(c, p) ==
    LET g == GlobalConfigProps
        s == ServiceConfigProps(c, p)
    IN Obj([k \in {"baseURL"} \cup DOMAIN g \cup DOMAIN s |->
              IF k \in DOMAIN s THEN s[k]
              ELSE IF k \in DOMAIN g THEN g[k]
              ELSE Str(app.rootUrl.str \o SegmentOf(c, p))])

\* The handler a slot of an Interceptors value registers, if the slot is set
SlotHandlers(ixs, kind) ==
    IF ixs.type = "object" /\ kind \in DOMAIN ixs.props
    THEN <<[ fulfilled |-> Get(ixs.props[kind].props, "onFulfilled"),
             rejected |-> Get(ixs.props[kind].props, "onRejected") ]>>
    ELSE <<>>
GlobalIxs == Get(app.init, "interceptors")
ServiceIxs(c, p) == Get(CfgOf(c, p), "interceptors")

\* Position of a hook in what a request ran (0 when it did not run)
PosIn(ran, id) ==
    IF \E j \in 1 .. Len(ran) : ran[j] = id
    THEN CHOOSE j \in 1 .. Len(ran) : ran[j] = id
    ELSE 0

\* The call and entry an instance was created for
Owners(h) ==
    {cp \in UNION {{<<c, p>> : p \in Reached(c)} : c \in 1 .. Len(calls)} :
        HandleOf(cp[1], cp[2]) = h}

----------------------------------------------------------------------------
\* Claims

\* C1 (as stated): constructing an ApiService from a record whose name is
\* missing or empty fails with InvalidConfigError, so no descriptor without a
\* non-empty name exists.
C1_MissingNameRejected ==
    \A i \in DOMAIN descs :
        ~Truthy(Get(ServiceConfigs[i], "name")) =>
            /\ descs[i].kind = "throw"
            /\ descs[i].value.name = "InvalidConfigError"

\* C1 (amended): constructing an ApiService never fails; the descriptor holds
\* the name as given, undefined or '' included, and createApiClient takes such
\* a descriptor like any other: its loop reaches it, and a call that returns
\* holds its client under the key the name converts to.
C1_NameStoredAsGiven ==
    /\ \A i \in DOMAIN descs :
          /\ descs[i].kind = "normal"
          /\ descs[i].value.name = Get(ServiceConfigs[i], "name")
    /\ \A c \in Returned : \A p \in 1 .. Len(calls[c].services) :
          ~Truthy(NameOf(c, p)) =>
              /\ p \in Reached(c)
              /\ PropertyKey(NameOf(c, p)) \in DOMAIN ClientOf(c)

\* A descriptor without a name and one with the empty name exist, and a
\* returned client holds a service of a descriptor without a name
C1_Witness ==
    /\ \E i \in DOMAIN descs : descs[i].kind = "normal" /\ descs[i].value.name = Undef
    /\ \E i \in DOMAIN descs : descs[i].kind = "normal" /\ descs[i].value.name = Str("")
    /\ \E c \in Returned : \E p \in 1 .. Len(calls[c].services) :
          NameOf(c, p) = Undef /\ "undefined" \in DOMAIN ClientOf(c)

\* C3 (as stated): when a service's endpoint factory throws e, createApiClient
\* raises an EndpointFactoryError wrapping e.
C3_FactoryErrorWrapped ==
    \A c \in 1 .. Len(calls) :
        ThrowingEntries(c) # {} =>
            calls[c].completion =
                Throw(EndpointFactoryError(CfgOf(c, FirstThrow(c)).endpoints.throws))

\* C3 (amended): when a service's endpoint factory throws e, createApiClient
\* throws e itself, unwrapped, and does not return.
C3_FactoryErrorPropagates ==
    \A c \in 1 .. Len(calls) :
        ThrowingEntries(c) # {} =>
            calls[c].completion = Throw(CfgOf(c, FirstThrow(c)).endpoints.throws)

\* A call whose factory threw "boom" has ended
C3_Witness ==
    \E c \in 1 .. Len(calls) :
        /\ ThrowingEntries(c) # {}
        /\ calls[c].completion = Throw(Str("boom"))

\* C4: when the factory of the k-th entry throws, createApiClient ends there:
\* it throws and returns no client, the entries after k get no instance and
\* their factories do not run, and no instance made during the call shows in
\* any returned client.
C4_FailFast ==
    \A c \in 1 .. Len(calls) :
        ThrowingEntries(c) # {} =>
            LET k == FirstThrow(c) IN
            /\ calls[c].completion.kind = "throw"
            /\ Reached(c) = 1 .. k
            /\ Len(BuildEvents(c)) = k
            /\ \A p \in 1 .. k : BuildEvents(c)[p].id = calls[c].services[p].id
            /\ \A r \in Returned : \A n \in DOMAIN ClientOf(r) :
                  \A p \in 1 .. k :
                      ClientOf(r)[n].props.instance # Inst(HandleOf(c, p))

\* The second of three factories threw, after the first entry's client was
\* composed and with one entry left
C4_Witness ==
    \E c \in Threw :
        /\ Len(calls[c].services) = 3
        /\ FirstThrow(c) = 2
        /\ Len(BuildEvents(c)) = 2

\* C2 (as stated): when both the global and the service request interceptor
\* have an onFulfilled hook, a request through the service's instance runs
\* both, the global one before the service one.
C2_GlobalRequestHookFirst ==
    \A j \in 1 .. Len(lastRequest) :
        \A cp \in Owners(lastRequest[j].instance) :
            LET g == OptGet(OptGet(GlobalIxs, "request"), "onFulfilled")
                s == OptGet(OptGet(ServiceIxs(cp[1], cp[2]), "request"), "onFulfilled")
                ran == lastRequest[j].ran
            IN (g.type = "function" /\ s.type = "function") =>
                  /\ PosIn(ran, g.id) > 0
                  /\ PosIn(ran, s.id) > 0
                  /\ PosIn(ran, g.id) < PosIn(ran, s.id)

C6_MetadataWins ==
    \A c \in Returned : \A n \in DOMAIN ClientOf(c) :
        LET p == LastUnder(c, n)
            h == HandleOf(c, p)
            svc == ClientOf(c)[n].props
            keys == CfgOf(c, p).endpoints.keys
        IN /\ DOMAIN svc = keys \cup MetadataKeys
           /\ svc.baseUrl = Str(SegmentOf(c, p))
           /\ svc.config = instances[h].defaults
           /\ svc.interceptors = ServiceIxs(c, p)
           /\ svc.instance = Inst(h)
           /\ \A k \in keys \ MetadataKeys : svc[k] = Closure(k, h)

\* A returned client of a factory whose map has all four metadata keys
C6_Witness ==
    \E c \in Returned : \E n \in DOMAIN ClientOf(c) :
        /\ MetadataKeys \subseteq CfgOf(c, LastUnder(c, n)).endpoints.keys
        /\ ClientOf(c)[n].props.config.type = "object"

\* The names of a call's descriptors are strings, pairwise distinct
DistinctNames(c) ==
    /\ \A p \in 1 .. Len(calls[c].services) : NameOf(c, p).type = "string"
    /\ \A p, q \in 1 .. Len(calls[c].services) :
          p # q => NameOf(c, p) # NameOf(c, q)

Clients == UNION {{<<c, n>> : n \in DOMAIN ClientOf(c)} : c \in Returned}
InstanceOf(cn) == ClientOf(cn[1])[cn[2]].props.instance

\* C8: no two service clients, of one call or of two, hold the same instance,
\* and every axios.create of every call made a new one; two calls with the
\* same inputs return clients with the same keys whose baseUrl, config and
\* interceptors are equal and whose instances differ.
C8_HandlesNeverShared ==
    /\ \A a, b \in Clients : a # b => InstanceOf(a) # InstanceOf(b)
    /\ \A c, d \in 1 .. Len(calls) : \A p \in Reached(c), q \in Reached(d) :
          <<c, p>> # <<d, q>> => HandleOf(c, p) # HandleOf(d, q)
    /\ \A c, d \in Returned :
          (c # d /\ calls[c].services = calls[d].services) =>
              /\ DOMAIN ClientOf(c) = DOMAIN ClientOf(d)
              /\ \A n \in DOMAIN ClientOf(c) :
                    LET x == ClientOf(c)[n].props
                        y == ClientOf(d)[n].props
                    IN /\ x.baseUrl = y.baseUrl
                       /\ x.config = y.config
                       /\ x.interceptors = y.interceptors
                       /\ x.instance # y.instance

\* Two returned calls with the same services, of two entries each
C8_Witness ==
    \E c, d \in Returned :
        /\ c # d
        /\ calls[c].services = calls[d].services
        /\ Cardinality(DOMAIN ClientOf(c)) = 2

\* C9: on the instance of every entry the loop reached, the request handlers
\* are the global request slot's (if set) then the service's (if set), the
\* response handlers likewise, each once and with the hooks as given, an
\* undefined onFulfilled included; and createApiClient fails only when a
\* factory throws.
C9_RegistrationOrder ==
    /\ \A c \in 1 .. Len(calls) : \A p \in Reached(c) :
          LET inst == instances[HandleOf(c, p)] IN
          /\ inst.request = SlotHandlers(GlobalIxs, "request")
                              \o SlotHandlers(ServiceIxs(c, p), "request")
          /\ inst.response = SlotHandlers(GlobalIxs, "response")
                               \o SlotHandlers(ServiceIxs(c, p), "response")
    /\ \A c \in Threw : ThrowingEntries(c) # {}

\* An instance of a returned call with two request handlers: the global
\* slot's, with onRejected alone, then the service's, with an onFulfilled
C9_Witness ==
    \E c \in Returned : \E p \in Reached(c) :
        LET inst == instances[HandleOf(c, p)] IN
        /\ Len(inst.request) = 2
        /\ inst.request[1].fulfilled = Undef
        /\ inst.request[1].rejected.type = "function"
        /\ inst.request[2].fulfilled.type = "function"

UsesOf(c, h) ==
    {j \in 1 .. Len(calls[c].events) :
        calls[c].events[j].op = "use" /\ calls[c].events[j].instance = h}
IndexOf(c, op, h) ==
    CHOOSE j \in 1 .. Len(calls[c].events) :
        calls[c].events[j].op = op /\ calls[c].events[j].instance = h
BuildsOf(i) ==
    UNION {{<<c, j>> : j \in {x \in 1 .. Len(BuildEvents(c)) : BuildEvents(c)[x].id = i}}
              : c \in 1 .. Len(calls)}
RegisteredOn(h, kind) == Len(instances[h][kind])

====
